---------------------------- MODULE Spec2Model ----------------------------
(***************************************************************************)
(* A model of the multipart upload of zerofs.py: Uploader._multipart_upload *)
(* (the orchestrator, one coordinating thread), Uploader._upload_part (one  *)
(* task per part, run by a ThreadPoolExecutor of 4 workers), the progress   *)
(* sink (ProgressTracker) and the two collaborators of APIClient            *)
(* (complete_multipart_upload, abort_multipart_upload).                     *)
(*                                                                         *)
(* The environment is nondeterministic: a PUT succeeds (returning an ETag   *)
(* header) or raises requests.RequestException, an attempt may raise another *)
(* exception (an OSError opening the file), a collaborator call succeeds or  *)
(* fails, and one KeyboardInterrupt may be delivered to the coordinating    *)
(* thread while it is inside the try body (lines 265-320).                  *)
(***************************************************************************)
EXTENDS Integers, Sequences, FiniteSets, TLC

\* ------------------------------------------------------------- constants
MAX_RETRIES == 5
RETRY_BACKOFF_BASE == 2
\* ThreadPoolExecutor(max_workers=4)
MaxWorkers == 4

\* ---------------------------------------------------------------- bounds
\* Largest file size, chunk size and number of part_urls entries of a run.
MaxFileSize == 2
MaxChunk == 1
MaxParts == 2
\* Faults (failed PUTs and other exceptions of an attempt) injected in a run.
MaxFaults == 5
\* The pool specification: the parts submitted beyond the pool size.
PoolExtra == 1
\* The plan specification: largest file size, chunk size and number of parts.
PlanMaxSize == 8
PlanMaxChunk == 4
PlanMaxParts == 8
LiveParts == 2
LiveFaults == 5

VARIABLES
    file_size,      \* os.path.getsize(file_path)
    chunk_size,     \* metadata['chunk_size']
    part_urls,      \* metadata['part_urls'], as the sequence of its part numbers
    pc,             \* where the coordinating thread is in _multipart_upload
    submitted,      \* entries of part_urls submitted to the executor so far
    rng,            \* part -> [start, end] passed to _upload_part
    cause,          \* part -> the exception that left _upload_part ("none",
                    \* "request": requests.RequestException, "other")
    st,             \* part -> "none" | "queued" | "run" | "sleep" | "ok" | "err"
    attempt,        \* part -> the loop variable of _upload_part
    attempts,       \* part -> attempts started (file read and PUT issued)
    failures,       \* part -> PUTs that raised requests.RequestException
    starts,         \* part -> times a worker started the part's task
    sleeps,         \* part -> the durations passed to time.sleep, in order
    resp,           \* part -> the ETag header of the successful response
    result,         \* part -> the dict the future holds
    updates,        \* part -> calls of progress.update made by the part
    yielded,        \* the futures as_completed has yielded, in order
    parts,          \* the list `parts`
    progress,       \* the sink: [n, closed, closes, late]
    failedPart,     \* the part number printed at line 296 (0: none)
    aborts,         \* calls of abort_multipart_upload
    warnings,       \* "Warning: Failed to abort" printed by the collaborator
    completeCalls,  \* the calls of complete_multipart_upload: [parts, ok]
    file_id,        \* metadata['file_id'] ("none": not set)
    retval,         \* what _multipart_upload returned ("none": not yet)
    interrupted,    \* a KeyboardInterrupt was delivered
    etagStyle,      \* how the storage sends ETag headers in this run
    faultsLeft      \* faults the environment may still inject

vars == <<file_size, chunk_size, part_urls, pc, submitted, rng, cause, st,
          attempt, attempts, failures, starts, sleeps, resp, result, updates, yielded,
          parts, progress,
          failedPart, aborts, warnings, completeCalls, file_id, retval,
          interrupted, etagStyle, faultsLeft>>

planVars == <<file_size, chunk_size, part_urls, etagStyle>>
taskVars == <<rng, cause, st, attempt, attempts, failures, starts, sleeps,
              resp, result, updates>>
mainVars == <<pc, submitted, yielded, parts, failedPart, aborts, warnings,
              completeCalls, file_id, retval>>

\* ------------------------------------------------------------- helpers
Min(a, b) == IF a <= b THEN a ELSE b

RECURSIVE Pow(_, _)
Pow(b, e) == IF e = 0 THEN 1 ELSE b * Pow(b, e - 1)

Parts == 1..Len(part_urls)

\* The quote character, and the ETag header of the response to the PUT of a
\* part: the storage's tag of the part, sent in quotes or bare.
Q == "\""
ETagStyles == {"quoted", "bare"}
StorageTag(p) == <<ToString(p)>>
ETagHeader(p) ==
    IF etagStyle = "quoted" THEN <<Q>> \o StorageTag(p) \o <<Q>>
    ELSE StorageTag(p)

\* str.strip('"'): every leading and every trailing quote is removed.
RECURSIVE LStrip(_)
LStrip(s) == IF s # <<>> /\ Head(s) = Q THEN LStrip(Tail(s)) ELSE s

RECURSIVE RStrip(_)
RStrip(s) ==
    IF s # <<>> /\ s[Len(s)] = Q THEN RStrip(SubSeq(s, 1, Len(s) - 1)) ELSE s

Strip(s) == RStrip(LStrip(s))

\* parts.sort(key=lambda x: x['part_number']): a stable sort, as insertion.
RECURSIVE InsertByPartNumber(_, _)
InsertByPartNumber(x, s) ==
    IF s = <<>> THEN <<x>>
    ELSE IF x.part_number < Head(s).part_number THEN <<x>> \o s
    ELSE <<Head(s)>> \o InsertByPartNumber(x, Tail(s))

\* Mutant: the list is handed on in the order of arrival.
SortByPartNumberSkipped(s) == s

RECURSIVE SortByPartNumber(_)
SortByPartNumber(s) ==
    IF s = <<>> THEN <<>>
    ELSE InsertByPartNumber(s[Len(s)], SortByPartNumber(SubSeq(s, 1, Len(s) - 1)))

\* start and end of a part, lines 281-282
PartStart(part_number) == (part_number - 1) * chunk_size
\* Mutant: the last part is not clamped to the file size.
PartEndUnclamped(part_number) == PartStart(part_number) + chunk_size

PartEnd(part_number) == Min(PartStart(part_number) + chunk_size, file_size)

\* part_size, line 337
PartSize(p) == rng[p].end - rng[p].start

\* Mutant: off by one, the last failure is retried too.
ShouldRetryOnceMore(a) == a < MAX_RETRIES

\* line 367: whether a failed attempt is followed by another
ShouldRetry(a) == a < MAX_RETRIES - 1

\* Mutant: a linear backoff.
BackoffWaitLinear(a) == RETRY_BACKOFF_BASE * a

\* line 368: wait_time
BackoffWait(a) == Pow(RETRY_BACKOFF_BASE, a)

Consumed == { yielded[i] : i \in 1..Len(yielded) }
Submitted == { part_urls[i] : i \in 1..submitted }
Terminal(p) == st[p] \in {"ok", "err"}
InFlight == { p \in Parts : st[p] \in {"run", "sleep"} }
\* The executor's work queue is FIFO: the next task is the earliest submitted
\* one that no worker has taken.
NextQueued(p) ==
    /\ st[p] = "queued"
    /\ \A i \in 1..submitted :
          st[part_urls[i]] = "queued" =>
              \E j \in 1..i : part_urls[j] = p

\* ProgressTracker.update: tqdm.update returns at once on a closed bar.
ProgressUpdate(pr, n) ==
    IF pr.closed THEN [pr EXCEPT !.late = TRUE]
    ELSE [pr EXCEPT !.n = @ + n]

\* ProgressTracker.complete
ProgressComplete(pr) == [pr EXCEPT !.closed = TRUE, !.closes = @ + 1]

\* ------------------------------------------------------------------ Init
InitRun(n, faults) ==
    /\ part_urls = [i \in 1..n |-> i]
    /\ pc = "dispatch"
    /\ submitted = 0
    /\ rng = [p \in 1..n |-> [start |-> 0, end |-> 0]]
    /\ cause = [p \in 1..n |-> "none"]
    /\ st = [p \in 1..n |-> "none"]
    /\ attempt = [p \in 1..n |-> 0]
    /\ attempts = [p \in 1..n |-> 0]
    /\ failures = [p \in 1..n |-> 0]
    /\ starts = [p \in 1..n |-> 0]
    /\ sleeps = [p \in 1..n |-> <<>>]
    /\ resp = [p \in 1..n |-> <<>>]
    /\ result = [p \in 1..n |-> [part_number |-> 0, etag |-> <<>>]]
    /\ updates = [p \in 1..n |-> 0]
    /\ yielded = <<>>
    /\ parts = <<>>
    /\ progress = [n |-> 0, closed |-> FALSE, closes |-> 0, late |-> FALSE]
    /\ failedPart = 0
    /\ aborts = 0
    /\ warnings = 0
    /\ completeCalls = <<>>
    /\ file_id = "none"
    /\ retval = "none"
    /\ interrupted = FALSE
    /\ faultsLeft = faults

Init ==
    /\ file_size \in 0..MaxFileSize
    /\ chunk_size \in 0..MaxChunk
    /\ etagStyle \in ETagStyles
    /\ \E n \in 0..MaxParts : InitRun(n, MaxFaults)

\* Descriptors of any shape, for the ranges of lines 281-282.
InitPlan ==
    /\ file_size \in 0..PlanMaxSize
    /\ chunk_size \in 0..PlanMaxChunk
    /\ etagStyle \in ETagStyles
    /\ \E n \in 0..PlanMaxParts : InitRun(n, 0)

\* More parts than the executor has workers, one byte each, and one fault.
InitPool ==
    /\ chunk_size = 1
    /\ etagStyle \in ETagStyles
    /\ \E n \in (MaxWorkers + 1)..(MaxWorkers + PoolExtra) :
          /\ file_size = n
          /\ InitRun(n, 1)

\* Runs of one-byte parts with few faults, for the questions of termination.
InitLive ==
    /\ chunk_size = 1
    /\ etagStyle \in ETagStyles
    /\ \E n \in 1..LiveParts :
          /\ file_size = n
          /\ InitRun(n, LiveFaults)

\* --------------------------------------------------- the coordinating thread
\* lines 277-288: one iteration of the submission loop
Submit ==
    /\ pc = "dispatch"
    /\ submitted < Len(part_urls)
    /\ LET p == part_urls[submitted + 1] IN
          /\ rng' = [rng EXCEPT ![p] = [start |-> PartStart(p), end |-> PartEnd(p)]]
          /\ st' = [st EXCEPT ![p] = "queued"]
    /\ submitted' = submitted + 1
    /\ UNCHANGED <<planVars, pc, cause, attempt, attempts, failures, starts,
                   sleeps, resp, result, updates,
                   yielded, parts, progress, failedPart, aborts, warnings,
                   completeCalls, file_id, retval, interrupted, faultsLeft>>

\* line 290: the submission loop is over, as_completed starts
BeginCollect ==
    /\ pc = "dispatch"
    /\ submitted = Len(part_urls)
    /\ pc' = "collect"
    /\ UNCHANGED <<planVars, taskVars, submitted, yielded, parts, progress,
                   failedPart, aborts, warnings, completeCalls, file_id, retval,
                   interrupted, faultsLeft>>

\* Mutant: a failed future is skipped instead of ending the upload.
CollectIgnoringFailure(p) ==
    /\ pc = "collect"
    /\ p \in Submitted \ Consumed
    /\ Terminal(p)
    /\ yielded' = Append(yielded, p)
    /\ parts' = IF st[p] = "ok" THEN Append(parts, result[p]) ELSE parts
    /\ UNCHANGED <<planVars, taskVars, pc, failedPart, submitted, progress,
                   aborts, warnings, completeCalls, file_id, retval, interrupted,
                   faultsLeft>>

\* Mutant: the report uses the submission loop's stale part_number.
CollectReportingLastSubmitted(p) ==
    /\ pc = "collect"
    /\ p \in Submitted \ Consumed
    /\ Terminal(p)
    /\ yielded' = Append(yielded, p)
    /\ IF st[p] = "ok"
          THEN /\ parts' = Append(parts, result[p])
               /\ UNCHANGED <<pc, failedPart>>
          ELSE /\ pc' = "fail_close"
               /\ failedPart' = part_urls[submitted]
               /\ UNCHANGED parts
    /\ UNCHANGED <<planVars, taskVars, submitted, progress, aborts, warnings,
                   completeCalls, file_id, retval, interrupted, faultsLeft>>

\* lines 290-296: as_completed yields a finished future
Collect(p) ==
    /\ pc = "collect"
    /\ p \in Submitted \ Consumed
    /\ Terminal(p)
    /\ yielded' = Append(yielded, p)
    /\ IF st[p] = "ok"
          THEN /\ parts' = Append(parts, result[p])
               /\ UNCHANGED <<pc, failedPart>>
          ELSE /\ pc' = "fail_close"
               /\ failedPart' = p
               /\ UNCHANGED parts
    /\ UNCHANGED <<planVars, taskVars, submitted, progress, aborts, warnings,
                   completeCalls, file_id, retval, interrupted, faultsLeft>>

\* line 297
FailClose ==
    /\ pc = "fail_close"
    /\ progress' = ProgressComplete(progress)
    /\ pc' = "fail_abort"
    /\ UNCHANGED <<planVars, taskVars, submitted, yielded, parts, failedPart,
                   aborts, warnings, completeCalls, file_id, retval, interrupted,
                   faultsLeft>>

\* APIClient.abort_multipart_upload: a failed request is printed, not raised
AbortCall(failed) ==
    /\ aborts' = aborts + 1
    /\ warnings' = IF failed THEN warnings + 1 ELSE warnings

\* Mutant: a failed abort request is raised (as RuntimeError, like the
\* other API calls) instead of printed.
FailAbortRaising ==
    /\ pc = "fail_abort"
    /\ \E failed \in BOOLEAN :
          /\ AbortCall(failed)
          /\ pc' = IF failed THEN "exc_wait" ELSE "fail_return"
    /\ UNCHANGED <<planVars, taskVars, submitted, yielded, parts, progress,
                   failedPart, completeCalls, file_id, retval, interrupted,
                   faultsLeft>>

\* lines 299-302
FailAbort ==
    /\ pc = "fail_abort"
    /\ \E failed \in BOOLEAN : AbortCall(failed)
    /\ pc' = "fail_return"
    /\ UNCHANGED <<planVars, taskVars, submitted, yielded, parts, progress,
                   failedPart, completeCalls, file_id, retval, interrupted,
                   faultsLeft>>

\* Mutant: the return is missing, the loop goes on to the next future.
FailReturnFallingThrough ==
    /\ pc = "fail_return"
    /\ pc' = "collect"
    /\ UNCHANGED <<planVars, taskVars, submitted, yielded, parts, progress,
                   failedPart, aborts, warnings, completeCalls, file_id, retval,
                   interrupted, faultsLeft>>

\* Mutant: the function is left without a value.
FailReturnWithoutValue ==
    /\ pc = "fail_return"
    /\ \A p \in Submitted : Terminal(p)
    /\ retval' = "None"
    /\ pc' = "done"
    /\ UNCHANGED <<planVars, taskVars, submitted, yielded, parts, progress,
                   failedPart, aborts, warnings, completeCalls, file_id,
                   interrupted, faultsLeft>>

\* line 303: return False leaves the with block, whose exit is
\* executor.shutdown(wait=True): it joins the workers, which first run
\* every task still queued.
FailReturn ==
    /\ pc = "fail_return"
    /\ \A p \in Submitted : Terminal(p)
    /\ retval' = "False"
    /\ pc' = "done"
    /\ UNCHANGED <<planVars, taskVars, submitted, yielded, parts, progress,
                   failedPart, aborts, warnings, completeCalls, file_id,
                   interrupted, faultsLeft>>

\* Mutant: the upload is finalized as soon as one result has arrived.
FinalizeWithoutWaiting ==
    /\ pc = "collect"
    /\ parts # <<>>
    /\ parts' = SortByPartNumber(parts)
    /\ progress' = ProgressComplete(progress)
    /\ pc' = "complete_call"
    /\ UNCHANGED <<planVars, taskVars, submitted, yielded, failedPart, aborts,
                   warnings, completeCalls, file_id, retval, interrupted,
                   faultsLeft>>

\* lines 290, 305-307: every future was yielded; sort, close the sink
Finalize ==
    /\ pc = "collect"
    /\ Consumed = Submitted
    /\ parts' = SortByPartNumber(parts)
    /\ progress' = ProgressComplete(progress)
    /\ pc' = "complete_call"
    /\ UNCHANGED <<planVars, taskVars, submitted, yielded, failedPart, aborts,
                   warnings, completeCalls, file_id, retval, interrupted,
                   faultsLeft>>

\* lines 311-320: the completion collaborator answers
CompleteOk ==
    /\ pc = "complete_call"
    /\ completeCalls' = Append(completeCalls, [parts |-> parts, ok |-> TRUE])
    /\ file_id' = "file_id"
    /\ retval' = "True"
    /\ pc' = "done"
    /\ UNCHANGED <<planVars, taskVars, submitted, yielded, parts, progress,
                   failedPart, aborts, warnings, interrupted, faultsLeft>>

\* lines 311-315, 141-142: the completion collaborator raises RuntimeError
CompleteFail ==
    /\ pc = "complete_call"
    /\ completeCalls' = Append(completeCalls, [parts |-> parts, ok |-> FALSE])
    /\ pc' = "exc_close"
    /\ UNCHANGED <<planVars, taskVars, submitted, yielded, parts, progress,
                   failedPart, aborts, warnings, file_id, retval, interrupted,
                   faultsLeft>>

\* Mutant: the handler catches Exception only, the interrupt leaves the
\* function.
InterruptUncaught ==
    /\ ~interrupted
    /\ pc \in {"dispatch", "collect", "fail_close", "fail_abort", "fail_return",
               "complete_call"}
    /\ interrupted' = TRUE
    /\ retval' = "KeyboardInterrupt"
    /\ pc' = "done"
    /\ UNCHANGED <<planVars, taskVars, submitted, yielded, parts, progress,
                   failedPart, aborts, warnings, completeCalls, file_id,
                   faultsLeft>>

\* KeyboardInterrupt in the coordinating thread. Inside the with block the
\* exception first passes the executor's exit (shutdown(wait=True)); raised
\* while that exit is already waiting (after return False), or after the with
\* block, it reaches the handler of line 322 at once.
Interrupt ==
    /\ ~interrupted
    /\ pc \in {"dispatch", "collect", "fail_close", "fail_abort", "fail_return",
               "complete_call"}
    /\ interrupted' = TRUE
    /\ pc' = IF pc \in {"fail_return", "complete_call"} THEN "exc_close"
             ELSE "exc_wait"
    /\ UNCHANGED <<planVars, taskVars, submitted, yielded, parts, progress,
                   failedPart, aborts, warnings, completeCalls, file_id, retval,
                   faultsLeft>>

\* the executor's exit on the exception path: the workers are joined
ExcWait ==
    /\ pc = "exc_wait"
    /\ \A p \in Submitted : Terminal(p)
    /\ pc' = "exc_close"
    /\ UNCHANGED <<planVars, taskVars, submitted, yielded, parts, progress,
                   failedPart, aborts, warnings, completeCalls, file_id, retval,
                   interrupted, faultsLeft>>

\* line 323
ExcClose ==
    /\ pc = "exc_close"
    /\ progress' = ProgressComplete(progress)
    /\ pc' = "exc_abort"
    /\ UNCHANGED <<planVars, taskVars, submitted, yielded, parts, failedPart,
                   aborts, warnings, completeCalls, file_id, retval, interrupted,
                   faultsLeft>>

\* Mutant: the handler reports success.
ExcAbortReturningTrue ==
    /\ pc = "exc_abort"
    /\ \E failed \in BOOLEAN : AbortCall(failed)
    /\ retval' = "True"
    /\ pc' = "done"
    /\ UNCHANGED <<planVars, taskVars, submitted, yielded, parts, progress,
                   failedPart, completeCalls, file_id, interrupted, faultsLeft>>

\* lines 325-331
ExcAbort ==
    /\ pc = "exc_abort"
    /\ \E failed \in BOOLEAN : AbortCall(failed)
    /\ retval' = "False"
    /\ pc' = "done"
    /\ UNCHANGED <<planVars, taskVars, submitted, yielded, parts, progress,
                   failedPart, completeCalls, file_id, interrupted, faultsLeft>>

\* ------------------------------------------------------------ the workers
\* Mutant: a task starts whether or not a worker is free.
StartPartUnbounded(p) ==
    /\ p \in Parts
    /\ NextQueued(p)
    /\ st' = [st EXCEPT ![p] = "run"]
    /\ attempt' = [attempt EXCEPT ![p] = 0]
    /\ attempts' = [attempts EXCEPT ![p] = @ + 1]
    /\ starts' = [starts EXCEPT ![p] = @ + 1]
    /\ UNCHANGED <<planVars, mainVars, rng, cause, failures, sleeps, resp,
                   result, updates, progress, interrupted, faultsLeft>>

\* A worker takes the next task: _upload_part starts attempt 0 (line 339).
StartPart(p) ==
    /\ p \in Parts
    /\ NextQueued(p)
    /\ Cardinality(InFlight) < MaxWorkers
    /\ st' = [st EXCEPT ![p] = "run"]
    /\ attempt' = [attempt EXCEPT ![p] = 0]
    /\ attempts' = [attempts EXCEPT ![p] = @ + 1]
    /\ starts' = [starts EXCEPT ![p] = @ + 1]
    /\ UNCHANGED <<planVars, mainVars, rng, cause, failures, sleeps, resp,
                   result, updates, progress, interrupted, faultsLeft>>

\* lines 350-364: the PUT succeeds
PutOk(p) ==
    /\ p \in Parts
    /\ st[p] = "run"
    /\ resp' = [resp EXCEPT ![p] = ETagHeader(p)]
    /\ result' = [result EXCEPT
                     ![p] = [part_number |-> p, etag |-> Strip(ETagHeader(p))]]
    /\ progress' = ProgressUpdate(progress, PartSize(p))
    /\ updates' = [updates EXCEPT ![p] = @ + 1]
    /\ st' = [st EXCEPT ![p] = "ok"]
    /\ UNCHANGED <<planVars, mainVars, rng, cause, attempt, attempts, failures,
                   starts, sleeps, interrupted, faultsLeft>>

\* lines 366-376: the PUT raises requests.RequestException
PutFail(p) ==
    /\ p \in Parts
    /\ st[p] = "run"
    /\ faultsLeft > 0
    /\ faultsLeft' = faultsLeft - 1
    /\ failures' = [failures EXCEPT ![p] = @ + 1]
    /\ IF ShouldRetry(attempt[p])
          THEN /\ sleeps' = [sleeps EXCEPT
                                ![p] = Append(@, BackoffWait(attempt[p]))]
               /\ st' = [st EXCEPT ![p] = "sleep"]
               /\ UNCHANGED cause
          ELSE /\ st' = [st EXCEPT ![p] = "err"]
               /\ cause' = [cause EXCEPT ![p] = "request"]
               /\ UNCHANGED sleeps
    /\ UNCHANGED <<planVars, mainVars, rng, attempt, attempts, starts, resp,
                   result, updates, progress, interrupted>>

\* lines 369-370, 339: the sleep is over, the next attempt starts
Retry(p) ==
    /\ p \in Parts
    /\ st[p] = "sleep"
    /\ attempt' = [attempt EXCEPT ![p] = @ + 1]
    /\ attempts' = [attempts EXCEPT ![p] = @ + 1]
    /\ st' = [st EXCEPT ![p] = "run"]
    /\ UNCHANGED <<planVars, mainVars, rng, cause, failures, starts, sleeps,
                   resp, result, updates, progress, interrupted, faultsLeft>>

\* Mutant: every exception of an attempt is retried like a RequestException.
AttemptErrorRetried(p) ==
    /\ p \in Parts
    /\ st[p] = "run"
    /\ faultsLeft > 0
    /\ faultsLeft' = faultsLeft - 1
    /\ cause' = [cause EXCEPT ![p] = "other"]
    /\ IF ShouldRetry(attempt[p])
          THEN /\ sleeps' = [sleeps EXCEPT
                                ![p] = Append(@, BackoffWait(attempt[p]))]
               /\ st' = [st EXCEPT ![p] = "sleep"]
          ELSE /\ st' = [st EXCEPT ![p] = "err"]
               /\ UNCHANGED sleeps
    /\ UNCHANGED <<planVars, mainVars, rng, attempt, attempts, failures, starts,
                   resp, result, updates, progress, interrupted>>

\* lines 341-343: an exception that is no RequestException (the file cannot be
\* opened or read) leaves _upload_part at once
AttemptError(p) ==
    /\ p \in Parts
    /\ st[p] = "run"
    /\ faultsLeft > 0
    /\ faultsLeft' = faultsLeft - 1
    /\ st' = [st EXCEPT ![p] = "err"]
    /\ cause' = [cause EXCEPT ![p] = "other"]
    /\ UNCHANGED <<planVars, mainVars, rng, attempt, attempts, failures, starts,
                   sleeps, resp, result, updates, progress, interrupted>>

Next ==
    \/ Submit
    \/ BeginCollect
    \/ \E p \in Parts : Collect(p)
    \/ FailClose
    \/ FailAbort
    \/ FailReturn
    \/ Finalize
    \/ CompleteOk
    \/ CompleteFail
    \/ Interrupt
    \/ ExcWait
    \/ ExcClose
    \/ ExcAbort
    \/ \E p \in Parts : StartPart(p)
    \/ \E p \in Parts : PutOk(p)
    \/ \E p \in Parts : PutFail(p)
    \/ \E p \in Parts : Retry(p)
    \/ \E p \in Parts : AttemptError(p)

Spec == Init /\ [][Next]_vars

\* The executor with more parts than workers.
SpecPool == InitPool /\ [][Next]_vars

\* The submission loop alone, over descriptors of any shape.
\* The steps the scheduler and the network owe the run: every step but the
\* faults and the interrupt, which the environment may withhold. The threads
\* are scheduled, and every PUT and every collaborator call returns.
Scheduled ==
    \/ Submit
    \/ BeginCollect
    \/ \E p \in Parts : Collect(p)
    \/ FailClose
    \/ FailAbort
    \/ FailReturn
    \/ Finalize
    \/ CompleteOk
    \/ CompleteFail
    \/ ExcWait
    \/ ExcClose
    \/ ExcAbort
    \/ \E p \in Parts : StartPart(p)
    \/ \E p \in Parts : PutOk(p)
    \/ \E p \in Parts : Retry(p)

SpecLive == InitLive /\ [][Next]_vars /\ WF_vars(Scheduled)

NextPlan ==
    \/ Submit
    \/ BeginCollect

SpecPlan == InitPlan /\ [][NextPlan]_vars

\* ------------------------------------------------------------------ claims
\* ceil(a / b) for b > 0
CeilDiv(a, b) == (a + b - 1) \div b

\* The sum of f over the finite set S
RECURSIVE SumOver(_, _)
SumOver(f, S) ==
    IF S = {} THEN 0
    ELSE LET x == CHOOSE y \in S : TRUE IN f[x] + SumOver(f, S \ {x})

\* The descriptor's invariant: chunk_size > 0 and one URL per part.
PlanValid ==
    /\ chunk_size > 0
    /\ Len(part_urls) = CeilDiv(file_size, chunk_size)

AnyPartFailed == \E p \in Parts : st[p] = "err"

\* C1 All-or-nothing completion: the completion collaborator is invoked only
\* when every part returned a successful result; once a part has failed
\* terminally, or the abort decision was made, it is never invoked (so no
\* result reaches a collaborator), and the outcome is False.
C1_AllOrNothing ==
    /\ completeCalls # <<>> => \A p \in Parts : st[p] = "ok"
    /\ AnyPartFailed =>
          /\ completeCalls = <<>>
          /\ retval # "True"
          /\ pc = "done" => retval = "False"
    /\ failedPart # 0 => completeCalls = <<>>

\* A part failed, the upload returned False, and another part succeeded after
\* the abort decision: its result was never yielded.
C1_Witness ==
    /\ pc = "done"
    /\ retval = "False"
    /\ failedPart # 0
    /\ \E p \in Parts : st[p] = "ok" /\ p \notin Consumed

\* C2 Result ordering: the list handed to the completion collaborator is
\* strictly ascending by part_number, has exactly one entry for each part slot
\* 1..N, and each entry carries the tag the storage returned for that part.
C2_ResultOrdering ==
    \A i \in 1..Len(completeCalls) :
        LET L == completeCalls[i].parts IN
        /\ Len(L) = Len(part_urls)
        /\ \A j \in 1..(Len(L) - 1) : L[j].part_number < L[j + 1].part_number
        /\ \A p \in Parts :
              Cardinality({ j \in 1..Len(L) : L[j].part_number = p }) = 1
        /\ \A j \in 1..Len(L) : L[j].etag = StorageTag(L[j].part_number)

\* The completion collaborator was called although the parts had finished in
\* descending order, with quoted ETag headers.
C2_Witness ==
    /\ completeCalls # <<>>
    /\ Len(yielded) >= 2
    /\ yielded[1] > yielded[2]
    /\ etagStyle = "quoted"

\* C3 Abort at most once: abort_multipart_upload is invoked at most once in a
\* run.
C3_AbortAtMostOnce == aborts <= 1

\* C4 Retry with backoff: a part that succeeded after k failed PUTs made
\* k + 1 attempts, k <= 4, and slept k times, for 1, 2, 4, 8 seconds in order.
C4_RetryBackoff ==
    \A p \in Parts :
        st[p] = "ok" =>
            /\ failures[p] <= 4
            /\ attempts[p] = failures[p] + 1
            /\ sleeps[p] = SubSeq(<<1, 2, 4, 8>>, 1, failures[p])

\* A part succeeded on its fifth attempt.
C4_Witness == \E p \in Parts : st[p] = "ok" /\ failures[p] = 4

\* C5 Retry exhaustion: no part makes more than 5 attempts or sleeps more than
\* 4 times; a part whose PUT failed 5 times has failed terminally after exactly
\* 5 attempts, with no sleep after the fifth failure.
C5_RetryExhaustion ==
    \A p \in Parts :
        /\ attempts[p] <= 5
        /\ failures[p] <= 5
        /\ Len(sleeps[p]) <= 4
        /\ failures[p] = 5 =>
              /\ st[p] = "err"
              /\ attempts[p] = 5
              /\ Len(sleeps[p]) = 4

\* A part's PUT failed five times.
C5_Witness == \E p \in Parts : failures[p] = 5 /\ st[p] = "err"

\* C6 Progress exactness: a part has called progress.update exactly once if it
\* succeeded and never otherwise, and on the success path the total of the sink
\* is the file size.
C6_ProgressExact ==
    /\ \A p \in Parts : updates[p] = IF st[p] = "ok" THEN 1 ELSE 0
    /\ retval = "True" => progress.n = file_size

\* C7 Plan validation: for a malformed descriptor no part transfer is
\* dispatched and no collaborator is called.
C7_NoDispatchForInvalidPlan ==
    ~PlanValid =>
        /\ \A p \in Parts : st[p] = "none"
        /\ aborts = 0
        /\ completeCalls = <<>>

\* C8 Partition correctness: for chunk_size > 0 and N = ceil(file_size /
\* chunk_size) parts, every range is non-empty, starts where the previous one
\* ends (the first at 0), no two overlap, and together they cover exactly
\* [0, file_size).
C8_PartitionCorrect ==
    PlanValid =>
        /\ \A p \in Submitted :
              /\ rng[p].start < rng[p].end
              /\ rng[p].start = IF p = 1 THEN 0 ELSE rng[p - 1].end
              /\ \A q \in Submitted : p < q => rng[p].end <= rng[q].start
        /\ submitted = Len(part_urls) =>
              /\ SumOver([p \in Parts |-> rng[p].end - rng[p].start], Parts)
                    = file_size
              /\ Len(part_urls) > 0 => rng[Len(part_urls)].end = file_size

\* Three or more ranges were computed for a file whose last part is short.
C8_Witness ==
    /\ PlanValid
    /\ Len(part_urls) >= 3
    /\ submitted = Len(part_urls)
    /\ file_size % chunk_size # 0

\* C9 Completion failure is terminal: after a failed completion call the
\* outcome is never True (False once returned), no file id is recorded, the
\* completion call is not repeated, and no part is uploaded again.
C9_CompletionFailureTerminal ==
    /\ Len(completeCalls) <= 1
    /\ \A i \in 1..Len(completeCalls) :
          ~completeCalls[i].ok =>
              /\ retval # "True"
              /\ pc = "done" => retval = "False"
              /\ file_id = "none"
              /\ \A p \in Parts :
                    /\ st[p] = "ok"
                    /\ starts[p] = 1
                    /\ attempts[p] = failures[p] + 1

\* Both parts succeeded, the completion call failed, the upload returned.
C9_Witness ==
    /\ pc = "done"
    /\ Len(part_urls) >= 2
    /\ completeCalls # <<>>
    /\ ~completeCalls[1].ok

\* C10 Bounded concurrency: at most 4 part transfers are in flight, no part is
\* started twice, and a run that ends with no part failed and no interrupt has
\* executed every part slot exactly once.
C10_BoundedConcurrency ==
    /\ Cardinality(InFlight) <= 4
    /\ \A p \in Parts : starts[p] <= 1
    /\ (pc = "done" /\ ~AnyPartFailed /\ ~interrupted) =>
          \A p \in Parts : starts[p] = 1 /\ st[p] = "ok"

\* Four transfers are in flight while a fifth part waits in the queue.
C10_Witness ==
    /\ Cardinality(InFlight) = 4
    /\ \E p \in Parts : st[p] = "queued"

\* C11: under fair scheduling every run reaches Done with exactly one of the
\* outcomes True and False, the outcome is never changed afterwards, and it is
\* True exactly when every part succeeded and the completion call succeeded.
AllPartsOk == \A p \in Parts : st[p] = "ok"
CompletionOk == completeCalls # <<>> /\ completeCalls[Len(completeCalls)].ok
OutcomeConsistent ==
    /\ pc = "done" <=> retval # "none"
    /\ retval \in {"none", "True", "False"}
    /\ retval = "True" <=> (pc = "done" /\ AllPartsOk /\ CompletionOk)
C12_NoAttemptAfterAbort ==
    [][failedPart # 0 => attempts' = attempts]_vars

\* C13: the sink is closed only when every dispatched part has terminated,
\* and no worker calls progress.update on a closed sink.
C13_DrainBeforeTeardown ==
    /\ progress.closed => \A p \in Submitted : Terminal(p)
    /\ ~progress.late

\* C14: ProgressTracker.complete is called at most once, and exactly once by
\* the time the outcome is returned.
C14_SinkClosedOnce ==
    /\ progress.closes <= 1
    /\ pc = "done" => progress.closes = 1

FailedParts == {p \in Parts : st[p] = "err"}
YieldedFailures == {i \in 1..Len(yielded) : st[yielded[i]] = "err"}
C16_FirstFailureWins ==
    /\ failedPart # 0 =>
          /\ failedPart \in FailedParts
          /\ yielded # <<>> /\ yielded[Len(yielded)] = failedPart
          /\ YieldedFailures = {Len(yielded)}
    /\ failedPart = 0 => YieldedFailures = {}
    /\ pc = "done" /\ ~interrupted /\ FailedParts # {} => failedPart # 0
    /\ \A p \in Parts :
          failedPart # 0 /\ FailedParts = {p} => failedPart = p
C16_Witness ==
    /\ pc = "done"
    /\ failedPart # 0
    /\ \E q \in FailedParts : q # failedPart /\ q \notin Consumed
    /\ aborts = 1

\* C17: an exception of an attempt that is no RequestException ends the part
\* on that attempt: no backoff sleep follows it and no further attempt; it
\* reaches the coordinating thread as a part failure, so a run that yielded
\* that part ends on the abort path, returning False without a completion
\* call.
C17_OnlyRequestFailuresRetried ==
    \A p \in Parts :
        cause[p] = "other" =>
            /\ st[p] = "err"
            /\ attempts[p] = failures[p] + 1
            /\ attempt[p] = failures[p]
            /\ Len(sleeps[p]) = failures[p]
            /\ updates[p] = 0
            /\ p \in Consumed => failedPart = p /\ completeCalls = <<>>
            /\ pc = "done" => retval = "False" /\ aborts >= 1
C17_Witness ==
    /\ pc = "done"
    /\ \E p \in Parts :
          /\ cause[p] = "other"
          /\ failures[p] >= 1
          /\ failedPart = p
          /\ \E q \in Parts : st[q] = "ok"

\* C18: a KeyboardInterrupt delivered while the run is submitting or
\* collecting (or at any later point before it returns) leads to a return of
\* False after a call of the abort collaborator, and no completion call is
\* ever made in such a run.
C18_InterruptLeadsToAbort ==
    /\ [](interrupted => completeCalls = <<>> /\ retval # "True")
    /\ interrupted ~> (pc = "done" /\ aborts >= 1 /\ retval = "False")
C18_Witness ==
    /\ pc = "done"
    /\ interrupted
    /\ failedPart = 0
    /\ submitted = Len(part_urls)
    /\ \E p \in Parts : st[p] = "ok"
    /\ aborts = 1
    /\ retval = "False"

\* C19: a failed abort notification is only warned about: the run goes on
\* as after a successful one (it sets off no handler, so the abort is not
\* repeated unless an interrupt arrives), no error leaves _multipart_upload,
\* and the outcome stays False.
C19_AbortBestEffort ==
    /\ warnings <= aborts
    /\ warnings > 0 /\ ~interrupted => aborts = 1
    /\ warnings > 0 =>
          /\ retval \in {"none", "False"}
          /\ pc \in {"fail_return", "exc_wait", "exc_close", "exc_abort", "done"}
          /\ pc = "done" <=> retval = "False"
C19_Witness ==
    /\ pc = "done"
    /\ warnings = 1
    /\ aborts = 1
    /\ failedPart # 0
    /\ retval = "False"

\* C20: when the completion collaborator is about to be called, and ever
\* after it was, every part was submitted and every part's transfer has
\* ended: none is queued, running or sleeping in its backoff.
C20_CompletionAfterQuiescence ==
    pc = "complete_call" \/ completeCalls # <<>> =>
        /\ submitted = Len(part_urls)
        /\ \A p \in Parts : Terminal(p)
        /\ InFlight = {}
        /\ \A p \in Parts : st[p] # "queued"
        /\ Consumed = Parts
C20_Witness ==
    /\ completeCalls # <<>>
    /\ Len(part_urls) >= 2
    /\ \E p \in Parts : Len(sleeps[p]) >= 1
    /\ \A p \in Parts : st[p] = "ok"

=============================================================================
